---------------------------- MODULE Spec2Model ----------------------------
(***************************************************************************)
(* GoNews: an in-memory positional inverted index (index.go), the query    *)
(* compiler QueryToRPN (query.go) and the tokenizer (analyze.go).          *)
(*                                                                         *)
(* A Go string is modelled as a sequence of one-character strings, so that *)
(* the byte-by-byte scanner of QueryToRPN, the regular expression of       *)
(* Tokenize and the "PHRASE:" prefix tests are computed as the code        *)
(* computes them.  A float64 score is modelled in fixed point, in units of *)
(* 10^-6.                                                                  *)
(***************************************************************************)
EXTENDS Integers, Sequences, FiniteSets, TLC

(***************************************************************************)
(* Bounds of the model.                                                    *)
(***************************************************************************)
\* number of AddDocument calls in one run
MaxAdds == 2
\* number of tokens of the generated well-formed queries
MaxQueryToks == 4

(***************************************************************************)
(* Strings.                                                                *)
(***************************************************************************)
UpperChars == <<"A","B","C","D","E","F","G","H","I","J","K","L","M",
                "N","O","P","Q","R","S","T","U","V","W","X","Y","Z">>

LowerChars == <<"a","b","c","d","e","f","g","h","i","j","k","l","m",
                "n","o","p","q","r","s","t","u","v","w","x","y","z">>

DigitChars == {"0","1","2","3","4","5","6","7","8","9"}

Range(s) == {s[i] : i \in DOMAIN s}

\* strings.ToLower / strings.ToUpper on ASCII text
UpperToLower == [c \in Range(UpperChars) |->
                    LowerChars[CHOOSE i \in 1..26 : UpperChars[i] = c]]

LowerToUpper == [c \in Range(LowerChars) |->
                    UpperChars[CHOOSE i \in 1..26 : LowerChars[i] = c]]

ToLowerChar(c) == IF c \in DOMAIN UpperToLower THEN UpperToLower[c] ELSE c

ToUpperChar(c) == IF c \in DOMAIN LowerToUpper THEN LowerToUpper[c] ELSE c

ToLower(s) == [i \in 1..Len(s) |-> ToLowerChar(s[i])]

ToUpper(s) == [i \in 1..Len(s) |-> ToUpperChar(s[i])]

\* strings.HasPrefix / strings.TrimPrefix
HasPrefix(s, p) == Len(s) >= Len(p) /\ SubSeq(s, 1, Len(p)) = p

TrimPrefix(s, p) == IF HasPrefix(s, p) THEN SubSeq(s, Len(p) + 1, Len(s)) ELSE s

\* strings.TrimSpace
IsSpace(c) == c \in {" ", "\t", "\n", "\r"}

RECURSIVE TrimLeft(_)
TrimLeft(s) == IF s # <<>> /\ IsSpace(Head(s)) THEN TrimLeft(Tail(s)) ELSE s

RECURSIVE TrimRight(_)
TrimRight(s) ==
    IF s # <<>> /\ IsSpace(s[Len(s)]) THEN TrimRight(SubSeq(s, 1, Len(s) - 1)) ELSE s

TrimSpace(s) == TrimRight(TrimLeft(s))

\* strings.Join
RECURSIVE Join(_, _)
Join(parts, sep) ==
    IF parts = <<>> THEN <<>>
    ELSE IF Len(parts) = 1 THEN parts[1]
    ELSE parts[1] \o sep \o Join(Tail(parts), sep)

PhrasePrefix == <<"P","H","R","A","S","E",":">>

OpAnd == <<"A","N","D">>

OpOr == <<"O","R">>

OpNot == <<"N","O","T">>

LParen == <<"(">>

RParen == <<")">>

(***************************************************************************)
(* analyze.go: the tokenizer.                                              *)
(***************************************************************************)
\* wordRE = [a-zA-Z0-9]+
WordChars == Range(UpperChars) \cup Range(LowerChars) \cup DigitChars

IsWordChar(c) == c \in WordChars

stopwords ==
    { <<"t","h","e">>, <<"i","s">>, <<"a","n","d">>, <<"a">>, <<"a","n">>,
      <<"o","f">>, <<"t","o">>, <<"i","n">>, <<"f","o","r">>, <<"o","n">>,
      <<"w","i","t","h">>, <<"b","y">>, <<"t","h","a","t">>, <<"t","h","i","s">>,
      <<"i","t">>, <<"a","s">>, <<"a","r","e">>, <<"w","a","s">>, <<"a","t">>,
      <<"f","r","o","m">>, <<"b","e">>, <<"h","a","s">>, <<"h","a","v","e">> }

\* the placeholder stemmer returns its argument
Stem(w) == w

\* wordRE.FindAllString(text, -1): the maximal runs of word characters
RECURSIVE FindAllString(_, _, _, _)
FindAllString(text, i, cur, acc) ==
    IF i > Len(text)
    THEN IF cur # <<>> THEN Append(acc, cur) ELSE acc
    ELSE IF IsWordChar(text[i])
         THEN FindAllString(text, i + 1, Append(cur, text[i]), acc)
         ELSE FindAllString(text, i + 1, <<>>,
                            IF cur # <<>> THEN Append(acc, cur) ELSE acc)

RECURSIVE FilterTokens(_, _)
FilterTokens(matches, stem) ==
    IF matches = <<>> THEN <<>>
    ELSE IF Head(matches) \in stopwords
         THEN FilterTokens(Tail(matches), stem)
         ELSE <<IF stem THEN Stem(Head(matches)) ELSE Head(matches)>>
              \o FilterTokens(Tail(matches), stem)

TokenizeWith(text, stem) == FilterTokens(FindAllString(ToLower(text), 1, <<>>, <<>>), stem)

(***************************************************************************)
(* The state: the Index (index.go), the process-wide stemming toggle       *)
(* (analyze.go), and the locals of the Search call.                         *)
(***************************************************************************)
VARIABLES
    Terms,          \* Index.Terms: term -> Posting (docID -> positions)
    Docs,           \* Index.Docs: docID -> Document
    DocTokCounts,   \* Index.DocTokCounts
    N,              \* Index.N
    EnableStemming, \* the global toggle of analyze.go
    addedIDs,       \* history: the document IDs passed to AddDocument so far
    adds,           \* history: the number of AddDocument calls so far
    query,          \* argument of the Search call
    rpn,            \* its compiled query
    resSet,         \* its evaluated document set
    results,        \* the slice it returned
    outcome         \* "none", "returned" or "panic"

vars == <<Terms, Docs, DocTokCounts, N, EnableStemming, addedIDs, adds,
          query, rpn, resSet, results, outcome>>

Tokenize(text) == TokenizeWith(text, EnableStemming)


(***************************************************************************)
(* query.go: QueryToRPN.                                                   *)
(***************************************************************************)
\* lines 19-61: the scanner that keeps quoted phrases together
LexFlush(toks, cur) == IF cur # <<>> THEN Append(toks, cur) ELSE toks

\* a scanner that drops what an unterminated quote has accumulated
LexEndDropsOpenQuote(toks, cur, inQuote) == IF inQuote THEN toks ELSE LexFlush(toks, cur)

\* lines 59-61: after the last character, whatever is accumulated is a token
LexEnd(toks, cur, inQuote) == LexFlush(toks, cur)

RECURSIVE LexFrom(_, _, _, _, _)
LexFrom(q, i, cur, inQuote, toks) ==
    IF i > Len(q)
    THEN LexEnd(toks, cur, inQuote)
    ELSE LET c == q[i] IN
         IF c = "\""
         THEN IF inQuote
              THEN LexFrom(q, i + 1, <<>>, FALSE,
                           IF cur # <<>> THEN Append(toks, PhrasePrefix \o cur)
                                         ELSE toks)
              ELSE LexFrom(q, i + 1, <<>>, TRUE, toks)
         ELSE IF inQuote
         THEN LexFrom(q, i + 1, Append(cur, c), inQuote, toks)
         ELSE IF c = " "
         THEN LexFrom(q, i + 1, <<>>, inQuote, LexFlush(toks, cur))
         ELSE IF c \in {"(", ")"}
         THEN LexFrom(q, i + 1, <<>>, inQuote, Append(LexFlush(toks, cur), <<c>>))
         ELSE LexFrom(q, i + 1, Append(cur, c), inQuote, toks)

Lex(q) == LexFrom(q, 1, <<>>, FALSE, <<>>)

\* lines 64-83: operators, parentheses and phrases are kept as written, any
\* other token is lowercased and re-tokenized
NormalizeTok(tok) ==
    LET t == ToUpper(tok) IN
    IF t \in {OpAnd, OpOr, OpNot, LParen, RParen} \/ HasPrefix(t, PhrasePrefix)
    THEN tok
    ELSE LET low == ToLower(t)
             sub == Tokenize(low)
         IN  IF Len(sub) = 0 THEN low
             ELSE IF Len(sub) = 1 THEN sub[1]
             ELSE Join(sub, <<"_">>)

NormalizeToks(toks) == [i \in 1..Len(toks) |-> NormalizeTok(toks[i])]

\* a precedence table in which AND binds no tighter than OR
precFlat(op) ==
    IF op = OpOr THEN 1
    ELSE IF op = OpAnd THEN 1
    ELSE IF op = OpNot THEN 3
    ELSE 0

\* line 86: prec; a key that is absent from the map reads as 0
prec(op) ==
    IF op = OpOr THEN 1
    ELSE IF op = OpAnd THEN 2
    ELSE IF op = OpNot THEN 3
    ELSE 0

\* lines 101-106: on ")", pop operators to the output up to a "(", and drop it
RECURSIVE CloseParen(_, _)
CloseParen(out, opstack) ==
    IF opstack # <<>> /\ opstack[Len(opstack)] # LParen
    THEN CloseParen(Append(out, opstack[Len(opstack)]),
                    SubSeq(opstack, 1, Len(opstack) - 1))
    ELSE IF opstack # <<>> /\ opstack[Len(opstack)] = LParen
         THEN [out |-> out, opstack |-> SubSeq(opstack, 1, Len(opstack) - 1)]
         ELSE [out |-> out, opstack |-> opstack]

\* lines 111-122: on an operator u, pop the operators that bind at least as
\* tightly, then push u
RECURSIVE PushOperator(_, _, _)
PushOperator(out, opstack, u) ==
    IF opstack # <<>>
       /\ opstack[Len(opstack)] # LParen
       /\ prec(ToUpper(opstack[Len(opstack)])) >= prec(u)
    THEN PushOperator(Append(out, opstack[Len(opstack)]),
                      SubSeq(opstack, 1, Len(opstack) - 1), u)
    ELSE [out |-> out, opstack |-> Append(opstack, u)]

\* lines 134-136: whatever is left on the operator stack goes to the output
RECURSIVE FlushOps(_, _)
FlushOps(out, opstack) ==
    IF opstack = <<>> THEN out
    ELSE FlushOps(Append(out, opstack[Len(opstack)]),
                  SubSeq(opstack, 1, Len(opstack) - 1))

\* lines 95-137: shunting-yard
RECURSIVE ShuntFrom(_, _, _, _)
ShuntFrom(toks, i, out, opstack) ==
    IF i > Len(toks)
    THEN FlushOps(out, opstack)
    ELSE LET tk == toks[i]
             u  == ToUpper(tk)
         IN  IF tk = LParen
             THEN ShuntFrom(toks, i + 1, out, Append(opstack, tk))
             ELSE IF tk = RParen
             THEN LET r == CloseParen(out, opstack)
                  IN  ShuntFrom(toks, i + 1, r.out, r.opstack)
             ELSE IF u \in {OpAnd, OpOr, OpNot}
             THEN LET r == PushOperator(out, opstack, u)
                  IN  ShuntFrom(toks, i + 1, r.out, r.opstack)
             ELSE IF HasPrefix(tk, PhrasePrefix)
             THEN ShuntFrom(toks, i + 1,
                            Append(out, PhrasePrefix \o TrimPrefix(tk, PhrasePrefix)),
                            opstack)
             ELSE ShuntFrom(toks, i + 1, Append(out, tk), opstack)

ShuntingYard(toks) == ShuntFrom(toks, 1, <<>>, <<>>)

QueryToRPN(q) ==
    LET t == TrimSpace(q) IN
    IF t = <<>> THEN <<>> ELSE ShuntingYard(NormalizeToks(Lex(t)))

\* isOperator
isOperator(t) == ToUpper(t) \in {OpAnd, OpOr, OpNot}

(***************************************************************************)
(* index.go: the inverted index.                                           *)
(***************************************************************************)
\* a Go map read: a missing key reads as the zero value (nil map, nil slice)
EmptyMap == [x \in {} |-> 0]

Put(m, k, v) == [x \in DOMAIN m \cup {k} |-> IF x = k THEN v ELSE m[x]]

TermsGet(terms, t) == IF t \in DOMAIN terms THEN terms[t] ELSE EmptyMap

PostingGet(posting, doc) == IF doc \in DOMAIN posting THEN posting[doc] ELSE <<>>

\* lines 29-34: append each token's position to its posting list
RECURSIVE AddTokens(_, _, _, _)
AddTokens(terms, id, tokens, pos) ==
    IF pos >= Len(tokens) THEN terms
    ELSE LET tok  == tokens[pos + 1]
             post == TermsGet(terms, tok)
         IN  AddTokens(Put(terms, tok, Put(post, id, Append(PostingGet(post, id), pos))),
                       id, tokens, pos + 1)

\* a count that is incremented on every call
DocCountIncrement(docs) == N + 1

\* line 35: idx.N = len(idx.Docs)
DocCount(docs) == Cardinality(DOMAIN docs)

\* postingIDs: the document IDs of a posting, ascending
RECURSIVE SortedIDs(_)
SortedIDs(S) ==
    IF S = {} THEN <<>>
    ELSE LET m == CHOOSE x \in S : \A y \in S : x <= y
         IN  <<m>> \o SortedIDs(S \ {m})

postingIDs(post) == SortedIDs(DOMAIN post)

\* intersectSorted: two-pointer merge of ascending slices
RECURSIVE intersectFrom(_, _, _, _, _)
intersectFrom(a, b, i, j, res) ==
    IF i <= Len(a) /\ j <= Len(b)
    THEN IF a[i] = b[j] THEN intersectFrom(a, b, i + 1, j + 1, Append(res, a[i]))
         ELSE IF a[i] < b[j] THEN intersectFrom(a, b, i + 1, j, res)
         ELSE intersectFrom(a, b, i, j + 1, res)
    ELSE res

intersectSorted(a, b) == intersectFrom(a, b, 1, 1, <<>>)

contains(arr, x) == \E k \in 1..Len(arr) : arr[k] = x

\* allDocsSet
allDocsSet(docs) == DOMAIN docs

\* an intersection that forgets the membership test
setIntersectNoTest(a, b) == IF Cardinality(a) > Cardinality(b) THEN b ELSE a

\* setIntersect iterates the smaller set and keeps what the other one holds
setIntersect(a, b) ==
    LET small == IF Cardinality(a) > Cardinality(b) THEN b ELSE a
        large == IF Cardinality(a) > Cardinality(b) THEN a ELSE b
    IN  {k \in small : k \in large}

setUnion(a, b) == a \cup b

\* a difference with its arguments exchanged
setDiffSwapped(a, b) == {k \in b : k \notin a}

setDiff(a, b) == {k \in a : k \notin b}

\* checkPhraseInDoc, lines 260-282.  With no tokens the read of posLists[0]
\* at line 268 is out of range and the call panics.
\* an adjacency test that looks for every later word at the first word's position
phraseAtNoOffset(terms, doc, tokens, p) ==
    \A i \in 1..(Len(tokens) - 1) :
        contains(PostingGet(TermsGet(terms, tokens[i + 1]), doc), p)
        \/ contains(PostingGet(TermsGet(terms, tokens[i + 1]), doc), p - i)

\* lines 270-276: word i of the phrase is recorded at position p + i
phraseAt(terms, doc, tokens, p) ==
    \A i \in 1..(Len(tokens) - 1) :
        contains(PostingGet(TermsGet(terms, tokens[i + 1]), doc), p + i)

checkPhraseInDoc(terms, doc, tokens) ==
    IF \E i \in 1..Len(tokens) : Len(PostingGet(TermsGet(terms, tokens[i]), doc)) = 0
    THEN [panic |-> FALSE, val |-> FALSE]
    ELSE IF Len(tokens) = 0
    THEN [panic |-> TRUE, val |-> FALSE]
    ELSE LET first == PostingGet(TermsGet(terms, tokens[1]), doc)
         IN  [panic |-> FALSE,
              val   |-> \E k \in 1..Len(first) : phraseAt(terms, doc, tokens, first[k])]

\* docsWithPhrase, lines 229-257
RECURSIVE phraseCandidates(_, _, _, _)
phraseCandidates(terms, tokens, i, candidate) ==
    IF i > Len(tokens) THEN candidate
    ELSE IF tokens[i] \notin DOMAIN terms THEN <<>>
    ELSE LET ids  == postingIDs(terms[tokens[i]])
             cand == IF i = 1 THEN ids ELSE intersectSorted(candidate, ids)
         IN  IF Len(cand) = 0 THEN <<>>
             ELSE phraseCandidates(terms, tokens, i + 1, cand)

docsWithPhrase(terms, tokens) ==
    IF Len(tokens) = 0 THEN {}
    ELSE LET candidate == phraseCandidates(terms, tokens, 1, <<>>)
         IN  {candidate[k] : k \in {j \in 1..Len(candidate) :
                                       checkPhraseInDoc(terms, candidate[j], tokens).val}}

\* EvaluateRPN, lines 133-182: the stack machine over document sets
operandSet(terms, tok) ==
    IF HasPrefix(tok, PhrasePrefix)
    THEN docsWithPhrase(terms, Tokenize(TrimPrefix(tok, PhrasePrefix)))
    ELSE DOMAIN TermsGet(terms, tok)

RECURSIVE evalFrom(_, _, _, _, _)
evalFrom(terms, universe, toks, i, stack) ==
    IF i > Len(toks)
    THEN IF Len(stack) = 0 THEN {} ELSE stack[Len(stack)]
    ELSE LET tok == toks[i]
             n   == Len(stack)
         IN  IF tok = OpAnd \/ tok = OpOr
             THEN IF n < 2 THEN evalFrom(terms, universe, toks, i + 1, stack)
                  ELSE LET r == stack[n]
                           l == stack[n - 1]
                           v == IF tok = OpAnd THEN setIntersect(l, r)
                                               ELSE setUnion(l, r)
                       IN  evalFrom(terms, universe, toks, i + 1,
                                    Append(SubSeq(stack, 1, n - 2), v))
             ELSE IF tok = OpNot
             THEN IF n < 1 THEN evalFrom(terms, universe, toks, i + 1, stack)
                  ELSE evalFrom(terms, universe, toks, i + 1,
                                Append(SubSeq(stack, 1, n - 1),
                                       setDiff(universe, stack[n])))
             ELSE evalFrom(terms, universe, toks, i + 1,
                           Append(stack, operandSet(terms, tok)))

EvaluateRPN(terms, docs, toks) == evalFrom(terms, allDocsSet(docs), toks, 1, <<>>)

\* matchedTermsInDoc, lines 78-104: the set of operands found in the document;
\* a phrase is recorded by its text, without the "PHRASE:" prefix
RECURSIVE matchedFrom(_, _, _, _, _)
matchedFrom(terms, doc, toks, i, set) ==
    IF i > Len(toks) THEN [panic |-> FALSE, set |-> set]
    ELSE LET tok == toks[i] IN
         IF isOperator(tok) THEN matchedFrom(terms, doc, toks, i + 1, set)
         ELSE IF HasPrefix(tok, PhrasePrefix)
         THEN LET phrase == TrimPrefix(tok, PhrasePrefix)
                  c      == checkPhraseInDoc(terms, doc, Tokenize(phrase))
              IN  IF c.panic THEN [panic |-> TRUE, set |-> set]
                  ELSE matchedFrom(terms, doc, toks, i + 1,
                                   IF c.val THEN set \cup {phrase} ELSE set)
         ELSE matchedFrom(terms, doc, toks, i + 1,
                          IF Len(PostingGet(TermsGet(terms, tok), doc)) > 0
                          THEN set \cup {tok} ELSE set)

matchedTermsInDoc(terms, doc, toks) == matchedFrom(terms, doc, toks, 1, {})

\* scoreDoc, lines 107-130.  math.Log(1 + N/df) in units of 10^-6.
IdfMicro(n, df) ==
    CASE <<n, df>> \in {<<1, 1>>, <<2, 2>>, <<3, 3>>, <<4, 4>>} -> 693147
      [] <<n, df>> = <<3, 2>> -> 916291
      [] <<n, df>> = <<4, 3>> -> 847298
      [] <<n, df>> \in {<<2, 1>>, <<4, 2>>} -> 1098612
      [] <<n, df>> = <<3, 1>> -> 1386294
      [] <<n, df>> = <<4, 1>> -> 1609438

\* line 112: the boost for a phrase match, 2.0
PhraseBonus == 2000000

termScore(terms, counts, n, doc, t) ==
    IF HasPrefix(t, PhrasePrefix) THEN PhraseBonus
    ELSE LET posting == TermsGet(terms, t)
             tf      == Len(PostingGet(posting, doc))
             df      == Cardinality(DOMAIN posting)
         IN  IF df = 0 \/ counts[doc] = 0 THEN 0
             ELSE (tf * IdfMicro(n, df)) \div counts[doc]

RECURSIVE scoreDoc(_, _, _, _, _)
scoreDoc(terms, counts, n, doc, matched) ==
    IF matched = {} THEN 0
    ELSE LET t == CHOOSE x \in matched : TRUE
         IN  termScore(terms, counts, n, doc, t)
             + scoreDoc(terms, counts, n, doc, matched \ {t})

\* line 73: sort.Slice by descending score.  The order in which the map is
\* ranged over and the order of equal scores are not fixed, so every
\* descending arrangement is a possible result.
SortedByScore(rs) ==
    {s \in [1..Cardinality(rs) -> rs] :
        /\ \A i, j \in DOMAIN s : i # j => s[i] # s[j]
        /\ \A i, j \in DOMAIN s : i < j => s[i].Score >= s[j].Score}

(***************************************************************************)
(* The inputs: documents as the loader hands them over, and query strings. *)
(***************************************************************************)
Sp == <<" ">>

Quote == <<"\"">>

cat == <<"c","a","t">>

dog == <<"d","o","g">>

small == <<"s","m","a","l","l">>

sat == <<"s","a","t">>

the == <<"t","h","e">>

Document(id, title, content) ==
    [ID |-> id, Title |-> title, Date |-> <<>>, Content |-> content]

Documents ==
    { Document(1, the \o Sp \o small, cat \o Sp \o sat),
      Document(1, dog, <<>>),
      Document(2, cat, small),
      Document(2, <<>>, the),
      Document(3, cat, dog \o Sp \o cat) }

Quoted(p) == Quote \o p \o Quote

Literals == {cat, dog, small}

\* "t1 AND t2" and "NOT t"
AndQueries == {x \o Sp \o OpAnd \o Sp \o y : x, y \in Literals}

NotQueries == {OpNot \o Sp \o x : x \in Literals \cup {sat}}

\* "x OR y AND z" and "x OR (y AND z)"
OrAndQuery(x, y, z) == x \o Sp \o OpOr \o Sp \o y \o Sp \o OpAnd \o Sp \o z

OrParenAndQuery(x, y, z) ==
    x \o Sp \o OpOr \o Sp \o LParen \o y \o Sp \o OpAnd \o Sp \o z \o RParen

PrecedenceQueries ==
    {OrAndQuery(x, y, z) : x, y, z \in Literals}
        \cup {OrParenAndQuery(x, y, z) : x, y, z \in Literals}

\* quoted phrases
PhraseTexts ==
    { small \o Sp \o cat, cat \o Sp \o small, small \o Sp \o cat \o Sp \o sat,
      small \o Sp \o sat, the \o Sp \o small \o Sp \o cat, cat \o Sp \o dog,
      dog \o Sp \o cat, cat, the, <<"C","a","t">> \o Sp \o dog }

PhraseQueries == {Quoted(p) : p \in PhraseTexts}

MixedQueries ==
    { Quoted(the) \o Sp \o OpOr \o Sp \o cat,
      OpNot \o Sp \o Quoted(the),
      Quoted(small \o Sp \o cat) \o Sp \o OpOr \o Sp \o dog,
      Quoted(small \o Sp \o cat) \o Sp \o OpAnd \o Sp \o cat,
      Quoted(cat \o Sp \o dog) \o Sp \o OpOr \o Sp \o Quoted(small \o Sp \o cat),
      cat \o Sp \o OpAnd \o Sp \o OpNot \o Sp \o Quoted(small \o Sp \o cat) }

\* well-formed queries: E ::= T ((AND | OR) T)*,  T ::= NOT T | operand | ( E )
RECURSIVE ParseE(_, _), ParseT(_, _)
ParseE(toks, i) ==
    LET j == ParseT(toks, i) IN
    IF j = 0 THEN 0
    ELSE IF j <= Len(toks) /\ toks[j] \in {OpAnd, OpOr} THEN ParseE(toks, j + 1)
    ELSE j

ParseT(toks, i) ==
    IF i > Len(toks) THEN 0
    ELSE IF toks[i] = OpNot THEN ParseT(toks, i + 1)
    ELSE IF toks[i] = LParen
         THEN LET j == ParseE(toks, i + 1)
              IN  IF j # 0 /\ j <= Len(toks) /\ toks[j] = RParen THEN j + 1 ELSE 0
    ELSE IF toks[i] \in {OpAnd, OpOr, RParen} THEN 0
    ELSE i + 1

WellFormed(toks) == ParseE(toks, 1) = Len(toks) + 1

Vocabulary == {cat, OpAnd, OpOr, OpNot, LParen, RParen}

WellFormedQueries ==
    {Join(toks, Sp) :
        toks \in {t \in UNION {[1..n -> Vocabulary] : n \in 1..MaxQueryToks} :
                     WellFormed(t)}}

\* queries a stack evaluator cannot be expected to run
MalformedQueries ==
    { <<>>, Sp \o Sp,
      LParen \o cat, cat \o RParen, LParen \o cat \o Sp \o OpAnd \o Sp \o dog,
      cat \o Sp \o OpAnd \o Sp \o LParen \o dog \o Sp \o OpOr \o Sp \o small,
      OpAnd \o Sp \o cat, cat \o Sp \o OpAnd, cat \o Sp \o dog,
      <<"C","a","t">>, cat \o <<"-">> \o dog, the,
      cat \o Sp \o <<"a","n","d">> \o Sp \o dog }

\* queries that end inside a quote
UnterminatedQueries ==
    { cat \o Sp \o Quote \o small,
      Quote \o small \o Sp \o cat,
      cat \o Sp \o OpAnd \o Sp \o Quote \o small,
      cat \o Sp \o Quote,
      cat \o Quote,
      cat \o Quote \o small,
      cat \o Sp \o Quote \o <<"a","n","d">>,
      cat \o Sp \o Quote \o dog \o Sp,
      Quoted(small \o Sp \o cat) \o Sp \o Quote \o dog }

Queries ==
    AndQueries \cup NotQueries \cup PrecedenceQueries \cup PhraseQueries
        \cup MixedQueries \cup WellFormedQueries \cup MalformedQueries
        \cup UnterminatedQueries

(***************************************************************************)
(* The operations.                                                         *)
(***************************************************************************)
\* NewIndex, and main before the first document is indexed
Init ==
    /\ Terms = EmptyMap
    /\ Docs = EmptyMap
    /\ DocTokCounts = EmptyMap
    /\ N = 0
    /\ EnableStemming \in BOOLEAN
    /\ addedIDs = {}
    /\ adds = 0
    /\ query = <<>>
    /\ rpn = <<>>
    /\ resSet = {}
    /\ results = <<>>
    /\ outcome = "none"

\* Index.AddDocument, lines 25-36, called by main for each loaded document
\* before the query is run
AddDocument(d) ==
    /\ outcome = "none"
    /\ adds < MaxAdds
    /\ LET tokens == Tokenize(d.Title \o Sp \o d.Content)
           docs   == Put(Docs, d.ID, d)
       IN  /\ Docs' = docs
           /\ DocTokCounts' = Put(DocTokCounts, d.ID, Len(tokens))
           /\ Terms' = AddTokens(Terms, d.ID, tokens, 0)
           /\ N' = DocCount(docs)
    /\ addedIDs' = addedIDs \cup {d.ID}
    /\ adds' = adds + 1
    /\ UNCHANGED <<EnableStemming, query, rpn, resSet, results, outcome>>

\* Index.Search, lines 56-75, called once by main on the built index; the
\* process ends after it, by returning or by a panic
Search(q) ==
    /\ outcome = "none"
    /\ query' = q
    /\ IF Len(q) = 0
       THEN /\ rpn' = <<>>
            /\ resSet' = {}
            /\ results' = <<>>
            /\ outcome' = "returned"
       ELSE \E r \in {QueryToRPN(q)} :
            \E rs \in {EvaluateRPN(Terms, Docs, r)} :
            \E m \in {[doc \in rs |-> matchedTermsInDoc(Terms, doc, r)]} :
                /\ rpn' = r
                /\ resSet' = rs
                /\ IF \E doc \in rs : m[doc].panic
                   THEN /\ results' = <<>>
                        /\ outcome' = "panic"
                   ELSE /\ results' \in SortedByScore(
                               {[DocID        |-> doc,
                                 Score        |-> scoreDoc(Terms, DocTokCounts, N,
                                                           doc, m[doc].set),
                                 MatchedTerms |-> m[doc].set] : doc \in rs})
                        /\ outcome' = "returned"
    /\ UNCHANGED <<Terms, Docs, DocTokCounts, N, EnableStemming, addedIDs, adds>>

Next ==
    \/ \E d \in Documents : AddDocument(d)
    \/ \E q \in Queries : Search(q)

Spec == Init /\ [][Next]_vars

(***************************************************************************)
(* Properties.                                                             *)
(***************************************************************************)
Searched == outcome # "none"

\* the documents that have a posting for term t
DocsWithTerm(t) == {d \in addedIDs : Len(PostingGet(TermsGet(Terms, t), d)) > 0}

\* C1: Search never fails: for every query and every index built by
\* AddDocument calls it runs to completion and returns a result list.
C1_SearchNeverPanics == outcome # "panic"

\* C2: the document set of "t1 AND t2" is the intersection of the documents
\* with a posting for t1 and the documents with a posting for t2.
C2_AndIsIntersection ==
    \A t1, t2 \in Literals :
        (Searched /\ query = t1 \o Sp \o OpAnd \o Sp \o t2)
            => /\ outcome = "returned"
               /\ resSet = DocsWithTerm(t1) \cap DocsWithTerm(t2)

\* a document with both terms is included and one with only the first is not
C2_Witness ==
    /\ outcome = "returned"
    /\ query = cat \o Sp \o OpAnd \o Sp \o dog
    /\ resSet # {}
    /\ DocsWithTerm(cat) \ DocsWithTerm(dog) # {}
    /\ (DocsWithTerm(cat) \ DocsWithTerm(dog)) \cap resSet = {}

\* C3: the document set of "NOT t" is the set of all indexed document IDs
\* minus the documents with a posting for t; it is the full set when no
\* document contains t.
C3_NotIsComplement ==
    \A t \in Literals \cup {sat} :
        (Searched /\ query = OpNot \o Sp \o t)
            => /\ outcome = "returned"
               /\ resSet = addedIDs \ DocsWithTerm(t)
               /\ (DocsWithTerm(t) = {} => resSet = addedIDs)

C3_Witness ==
    /\ outcome = "returned"
    /\ query = OpNot \o Sp \o dog
    /\ DocsWithTerm(dog) # {}
    /\ resSet # {}
    /\ resSet # addedIDs

\* the documents in which the words w occur at consecutive recorded positions
RecordedAt(t, d) == Range(PostingGet(TermsGet(Terms, t), d))

AdjacentDocs(w) ==
    {d \in addedIDs :
        \E p \in RecordedAt(w[1], d) :
            \A i \in 0..(Len(w) - 1) : p + i \in RecordedAt(w[i + 1], d)}

SmallCatDoc == Document(1, the \o Sp \o small, cat \o Sp \o sat)

\* C4: a phrase of normalized words w0..w(k-1), k >= 1, matches exactly the
\* documents in which, for some position p, every w_i is recorded at p+i;
\* with "the small cat sat" indexed, "small cat" matches and "cat small"
\* does not.
C4_PhraseIsOrderedAdjacency ==
    /\ \A ph \in PhraseTexts :
          (Searched /\ query = Quoted(ph) /\ Len(Tokenize(ph)) >= 1)
              => /\ outcome = "returned"
                 /\ resSet = AdjacentDocs(Tokenize(ph))
    /\ (Searched /\ adds = 1 /\ 1 \in DOMAIN Docs /\ Docs[1] = SmallCatDoc)
          => /\ query = Quoted(small \o Sp \o cat) => resSet = {1}
             /\ query = Quoted(cat \o Sp \o small) => resSet = {}

\* a document holds both words of the phrase, but not in the phrase's order
C4_Witness ==
    /\ outcome = "returned"
    /\ query = Quoted(cat \o Sp \o small)
    /\ 1 \in DocsWithTerm(cat) \cap DocsWithTerm(small)
    /\ resSet = {2}

AndOrRPN(x, y, z) == <<x, y, z, OpAnd, OpOr>>

\* C5: AND binds tighter than OR: "x OR y AND z" and "x OR (y AND z)" both
\* compile to [x, y, z, AND, OR].
C5_AndBindsTighter ==
    \A x, y, z \in Literals :
        /\ (Searched /\ query = OrAndQuery(x, y, z)) => rpn = AndOrRPN(x, y, z)
        /\ (Searched /\ query = OrParenAndQuery(x, y, z)) => rpn = AndOrRPN(x, y, z)

C5_Witness ==
    /\ outcome = "returned"
    /\ query = OrAndQuery(cat, dog, small)
    /\ rpn = <<cat, dog, small, OpAnd, OpOr>>

PhraseOperands(toks) ==
    {TrimPrefix(toks[i], PhrasePrefix) :
        i \in {j \in DOMAIN toks : HasPrefix(toks[j], PhrasePrefix)}}

LiteralOperands(toks) ==
    {toks[i] : i \in {j \in DOMAIN toks :
                         ~isOperator(toks[j]) /\ ~HasPrefix(toks[j], PhrasePrefix)}}

MatchedPhrases(doc) ==
    {ph \in PhraseOperands(rpn) :
        Len(Tokenize(ph)) >= 1 /\ doc \in AdjacentDocs(Tokenize(ph))}

MatchedLiterals(doc) == {t \in LiteralOperands(rpn) : doc \in DocsWithTerm(t)}

\* C6: in every returned result, each phrase operand matched in the document
\* adds exactly 2.0 to the score, next to the contributions of the matched
\* literal terms.
C6_PhraseBonusAdded ==
    outcome = "returned" =>
        \A i \in DOMAIN results :
            results[i].Score =
                PhraseBonus * Cardinality(MatchedPhrases(results[i].DocID))
                + scoreDoc(Terms, DocTokCounts, N, results[i].DocID,
                           MatchedLiterals(results[i].DocID))

\* C7: N is the number of distinct document IDs added, and the size of the
\* document table, also when an ID is added again.
C7_NIsDistinctIDs ==
    /\ N = Cardinality(addedIDs)
    /\ N = Cardinality(DOMAIN Docs)
    /\ addedIDs = allDocsSet(Docs)

C7_Witness == adds = 2 /\ Cardinality(addedIDs) = 1 /\ N = 1

\* the depth of the evaluator's stack after the tokens, or -1 once an
\* operator has found too few sets
RECURSIVE StackDepth(_, _, _)
StackDepth(toks, i, depth) ==
    IF i > Len(toks) THEN depth
    ELSE IF toks[i] \in {OpAnd, OpOr}
         THEN IF depth < 2 THEN -1 ELSE StackDepth(toks, i + 1, depth - 1)
    ELSE IF toks[i] = OpNot
         THEN IF depth < 1 THEN -1 ELSE StackDepth(toks, i + 1, depth)
    ELSE StackDepth(toks, i + 1, depth + 1)

ValidPostfix(toks) == StackDepth(toks, 1, 0) = 1

\* C8: the compiled form of a well-formed query is valid postfix: every
\* AND/OR finds two sets, every NOT finds one, and one set remains.
C8_WellFormedIsValidPostfix ==
    (Searched /\ query \in WellFormedQueries) => ValidPostfix(rpn)

\* C9: no parenthesis token appears in the output of QueryToRPN.
C9_NoParenInRPN ==
    Searched => \A i \in DOMAIN rpn : rpn[i] \notin {LParen, RParen}

\* the query, trimmed, ends inside a quote that is never closed
QuoteIndexes(q) == {i \in DOMAIN q : q[i] = "\""}

EndsInsideQuote(q) == Cardinality(QuoteIndexes(TrimSpace(q))) % 2 = 1

LastQuote(q) == CHOOSE i \in QuoteIndexes(q) : \A j \in QuoteIndexes(q) : j <= i

BeforeOpenQuote(q) == SubSeq(TrimSpace(q), 1, LastQuote(TrimSpace(q)) - 1)

AfterOpenQuote(q) ==
    SubSeq(TrimSpace(q), LastQuote(TrimSpace(q)) + 1, Len(TrimSpace(q)))

\* C10 as stated: the characters after an unterminated opening quote are
\* discarded, and the result is the compilation of the text before the quote.
C10_OpenQuoteDiscarded ==
    (Searched /\ EndsInsideQuote(query))
        => /\ rpn = QueryToRPN(BeforeOpenQuote(query))
           /\ AfterOpenQuote(query) # <<>>
                 => \A i \in DOMAIN rpn :
                        /\ rpn[i] # AfterOpenQuote(query)
                        /\ rpn[i] # PhrasePrefix \o AfterOpenQuote(query)

\* C10 amended: the characters after an unterminated opening quote are kept:
\* when there are any they are one more token, not tagged as a phrase by the
\* scanner, and the result is the compilation of the tokens scanned up to the
\* opening quote followed by that token.
C10_OpenQuoteKeptAsToken ==
    (Searched /\ EndsInsideQuote(query))
        => rpn = ShuntingYard(NormalizeToks(
                     Lex(BeforeOpenQuote(query) \o Quote)
                     \o (IF AfterOpenQuote(query) = <<>> THEN <<>>
                         ELSE <<AfterOpenQuote(query)>>)))

C10_Witness ==
    /\ outcome = "returned"
    /\ query = cat \o Sp \o Quote \o small
    /\ rpn = <<cat, small>>

=============================================================================
